---- MODULE Spec2Model ----
(***************************************************************************)
(* faultgraph: turn-based simulation of a directed service graph under     *)
(* load.  The model follows SimulationEngine (simulation/engine.rs),       *)
(* Snapshot (state/snapshot.rs), CapacityModifier                          *)
(* (simulation/modifiers.rs), NodeState (state/node_state.rs), Graph       *)
(* (graph/graph.rs), GroupSet (analysis/groups.rs) and aggregate_groups   *)
(* (analysis/analysis.rs).  The variable twin is a second engine built     *)
(* from the same inputs and driven by the same calls; summaries holds the  *)
(* vector aggregate_groups returned.                                       *)
(*                                                                         *)
(* Numbers the program keeps as f64 are modelled as exact rationals        *)
(* <<numerator, denominator>> in lowest terms with a positive              *)
(* denominator, so that equal values are equal tuples.  Rounding of the    *)
(* binary floating point representation is therefore not modelled; every   *)
(* comparison the code makes (== 0.0, > 1.0, min, max, clamp) is made on   *)
(* the exact value.  Node and edge ids are 1-based here (0-based in Rust). *)
(***************************************************************************)
EXTENDS Integers, Sequences, FiniteSets, TLC

VARIABLES graph, groups, scenario, current_snapshot, previous_snapshot,
          remaining_ops, last_call, applied, twin, summaries

vars == <<graph, groups, scenario, current_snapshot, previous_snapshot,
          remaining_ops, last_call, applied, twin, summaries>>

(* ---------------------------------------------------------------- bounds *)
MaxTurn == 5

\* the node ids of the largest graph
MaxNodes == 5

(* ------------------------------------------------------ exact arithmetic *)
Abs(x) == IF x < 0 THEN -x ELSE x

RECURSIVE GCD(_, _)
GCD(a, b) == IF b = 0 THEN a ELSE GCD(b, a % b)

Norm(n, d) ==
    LET g == GCD(Abs(n), d) IN
    IF n = 0 THEN <<0, 1>> ELSE <<n \div g, d \div g>>

Q(n, d) == Norm(n, d)
Zero == <<0, 1>>
One == <<1, 1>>

RAdd(a, b) == Norm(a[1] * b[2] + b[1] * a[2], a[2] * b[2])
RSub(a, b) == Norm(a[1] * b[2] - b[1] * a[2], a[2] * b[2])
RMul(a, b) == Norm(a[1] * b[1], a[2] * b[2])
RDiv(a, b) ==
    IF b[1] > 0 THEN Norm(a[1] * b[2], a[2] * b[1])
                ELSE Norm(-(a[1] * b[2]), a[2] * (-b[1]))
RLt(a, b) == a[1] * b[2] < b[1] * a[2]
RLe(a, b) == a[1] * b[2] <= b[1] * a[2]
RMin(a, b) == IF RLe(a, b) THEN a ELSE b
RMax(a, b) == IF RLe(a, b) THEN b ELSE a
RClamp(x, lo, hi) == RMax(lo, RMin(x, hi))

RECURSIVE RSum(_)
RSum(s) == IF s = <<>> THEN Zero ELSE RAdd(s[1], RSum(Tail(s)))

(* ------------------------------------------------------ CapacityModifier *)
BASELINE_FACTOR == One
TURNS == 3
THROTTLE == Q(1, 2)
BOOST == Q(3, 2)

ModNew ==
    [factor |-> One, active |-> FALSE, just_applied |-> FALSE,
     turns |-> TURNS, remaining |-> 0]

factor(m) == IF m.active THEN m.factor ELSE BASELINE_FACTOR

is_active(m) == m.active

\* apply: the pair <<returned bool, modifier afterwards>>
apply_no_flag(m, f) ==
    IF is_active(m)
    THEN <<FALSE, m>>
    ELSE <<TRUE, [m EXCEPT !.factor = f, !.active = TRUE, !.remaining = m.turns]>>

apply_overwrites(m, f) ==
    <<TRUE, [m EXCEPT !.factor = f, !.active = TRUE,
                      !.just_applied = TRUE, !.remaining = m.turns]>>

apply(m, f) ==
    IF is_active(m)
    THEN <<FALSE, m>>
    ELSE <<TRUE, [m EXCEPT !.factor = f, !.active = TRUE,
                           !.just_applied = TRUE, !.remaining = m.turns]>>

deactivate_keeps_factor(m) ==
    [m EXCEPT !.active = FALSE, !.just_applied = FALSE, !.remaining = 0]

deactivate(m) ==
    [m EXCEPT !.factor = BASELINE_FACTOR, !.active = FALSE,
              !.just_applied = FALSE, !.remaining = 0]

\* a plain countdown: the application turn counts toward decay
tick_plain_countdown(m) ==
    IF ~is_active(m) THEN m
    ELSE LET r == IF m.remaining > 0 THEN m.remaining - 1 ELSE m.remaining
             m1 == [m EXCEPT !.remaining = r, !.just_applied = FALSE]
         IN IF r = 0 THEN deactivate(m1) ELSE m1

\* deactivates one tick late: only when remaining was already 0
tick_late(m) ==
    IF ~is_active(m) THEN m
    ELSE IF m.just_applied THEN [m EXCEPT !.just_applied = FALSE]
    ELSE IF m.remaining = 0 THEN deactivate(m)
    ELSE [m EXCEPT !.remaining = @ - 1]

\* grants the grace tick without clearing the flag
tick_keeps_flag(m) ==
    IF ~is_active(m) THEN m
    ELSE IF m.just_applied THEN m
    ELSE LET r == IF m.remaining > 0 THEN m.remaining - 1 ELSE m.remaining
             m1 == [m EXCEPT !.remaining = r]
         IN IF r = 0 THEN deactivate(m1) ELSE m1

tick(m) ==
    IF ~is_active(m) THEN m
    ELSE IF m.just_applied THEN [m EXCEPT !.just_applied = FALSE]
    ELSE LET r == IF m.remaining > 0 THEN m.remaining - 1 ELSE m.remaining
             m1 == [m EXCEPT !.remaining = r]
         IN IF r = 0 THEN deactivate(m1) ELSE m1

(* ------------------------------------------------------------- NodeState *)
NodeStateNew(d, s, b, h) ==
    [demand |-> d, served |-> s, backlog |-> b, health |-> h]

set_demand(n, load) == [n EXCEPT !.demand = load]
set_served(n, load) == [n EXCEPT !.served = load]
set_backlog(n, load) == [n EXCEPT !.backlog = RMax(load, Zero)]
\* stores the health as computed, without clamping it to [0, 1]
set_health_unclamped(n, h) == [n EXCEPT !.health = h]

set_health(n, h) == [n EXCEPT !.health = RClamp(h, Zero, One)]
is_healthy(n) == RLt(Zero, n.health)

(* ----------------------------------------------------------------- Graph *)
NodeIds == 1..Len(graph.nodes)
EdgeIds == 1..Len(graph.edges)

\* Graph::new pushes edge ids in edge order
outgoing(n) == SelectSeq([i \in EdgeIds |-> i], LAMBDA e : graph.edges[e].from = n)
incoming(n) == SelectSeq([i \in EdgeIds |-> i], LAMBDA e : graph.edges[e].to = n)

(* -------------------------------------------------------------- GroupSet *)
GroupIds == 1..Len(groups)

\* GroupSet::new: later groups overwrite earlier ones in the reverse index
RECURSIVE NodeToGroup(_, _)
NodeToGroup(g, idx) ==
    IF g > Len(groups) THEN idx
    ELSE NodeToGroup(g + 1,
            [n \in DOMAIN idx |->
                IF \E k \in 1..Len(groups[g]) : groups[g][k] = n
                THEN g ELSE idx[n]])

RECURSIVE NodesCntFrom(_)
NodesCntFrom(g) ==
    IF g > Len(groups) THEN 0 ELSE Len(groups[g]) + NodesCntFrom(g + 1)

NodesCnt == NodesCntFrom(1)

group_by_node_id(n) == NodeToGroup(1, [i \in 1..NodesCnt |-> 1])[n]

(* -------------------------------------------------------------- Scenario *)
load(n, turn) ==
    IF \E k \in 1..Len(scenario.entry) : scenario.entry[k] = n
    THEN RMin(RAdd(scenario.base_load, RMul(scenario.ramp_per_turn, Q(turn, 1))),
              scenario.max_load)
    ELSE Zero

ops_per_turn == scenario.ops

(* -------------------------------------------------------------- Snapshot *)
SnapshotNew(t, ns, es, cm) ==
    [turn |-> t, node_states |-> ns, edge_states |-> es, capacity_mods |-> cm]

SnapshotTick(s) ==
    [s EXCEPT !.capacity_mods = [g \in DOMAIN s.capacity_mods |-> tick(s.capacity_mods[g])]]

\* applies the factor to the modifier of every group
update_capacity_every_group(s, g, f) ==
    <<apply(s.capacity_mods[g], f)[1],
      [s EXCEPT !.capacity_mods = [h \in DOMAIN s.capacity_mods |->
                                      apply(s.capacity_mods[h], f)[2]]]>>

update_capacity(s, g, f) ==
    LET r == apply(s.capacity_mods[g], f)
    IN <<r[1], [s EXCEPT !.capacity_mods[g] = r[2]]>>

\* the weight sum taken over all outgoing edges, disabled ones included
total_weight_all(s, u) ==
    RSum([i \in 1..Len(outgoing(u)) |-> graph.edges[outgoing(u)[i]].weight])

total_weight(s, u) ==
    LET en == SelectSeq(outgoing(u), LAMBDA e : s.edge_states[e])
    IN RSum([i \in 1..Len(en) |-> graph.edges[en[i]].weight])

\* forwards served x gain x weight without dividing by the weight sum
edge_load_unnormalised(s, e) ==
    LET edge == graph.edges[e]
        f_id == edge.from
    IN IF \/ ~is_healthy(s.node_states[f_id])
          \/ ~s.edge_states[e]
          \/ s.node_states[f_id].served = Zero
       THEN Zero
       ELSE IF total_weight(s, f_id) = Zero THEN Zero
       ELSE RMul(RMul(s.node_states[f_id].served, graph.nodes[f_id].gain), edge.weight)

\* forwards what an unhealthy producer still shows as served
edge_load_from_failed(s, e) ==
    LET edge == graph.edges[e]
        f_id == edge.from
    IN IF ~s.edge_states[e] \/ s.node_states[f_id].served = Zero
       THEN Zero
       ELSE IF total_weight(s, f_id) = Zero THEN Zero
       ELSE RMul(RMul(s.node_states[f_id].served, graph.nodes[f_id].gain),
                 RDiv(edge.weight, total_weight(s, f_id)))

edge_load(s, e) ==
    LET edge == graph.edges[e]
        f_id == edge.from
    IN IF \/ ~is_healthy(s.node_states[f_id])
          \/ ~s.edge_states[e]
          \/ s.node_states[f_id].served = Zero
       THEN Zero
       ELSE IF total_weight(s, f_id) = Zero THEN Zero
       ELSE RMul(RMul(s.node_states[f_id].served, graph.nodes[f_id].gain),
                 RDiv(edge.weight, total_weight(s, f_id)))

(* ---------------------------------------------------------------- Engine *)
current == current_snapshot

\* an engine that starts with a previous snapshot of its own: idle nodes in full health
previous_starts_idle ==
    IF previous_snapshot = <<>>
    THEN [current_snapshot EXCEPT
             !.node_states = [i \in DOMAIN current_snapshot.node_states |->
                                 NodeStateNew(Zero, Zero, Zero, One)]]
    ELSE previous_snapshot[1]

\* previous_snapshot(): the current snapshot until the first step
previous == IF previous_snapshot = <<>> THEN current_snapshot ELSE previous_snapshot[1]

\* step, lines 55-75: propagated demand of node v, read from the ticked snapshot s
prop(s, v) ==
    LET inc == SelectSeq(incoming(v),
                   LAMBDA e : is_healthy(s.node_states[graph.edges[e].from]))
        ent == SelectSeq(scenario.entry, LAMBDA id : id = v)
    IN RAdd(RSum([i \in 1..Len(inc) |-> edge_load(s, inc[i])]),
            RSum([i \in 1..Len(ent) |-> load(ent[i], s.turn)]))

has_active_edge(s, i) == \E k \in 1..Len(outgoing(i)) : s.edge_states[outgoing(i)[k]]

\* recovers whenever the pressure is below 1, backlog or not
update_health_ignores_backlog(n, total, capacity) ==
    IF capacity = Zero THEN n
    ELSE LET pressure == RDiv(total, capacity)
         IN IF RLt(One, pressure)
            THEN set_health(n, RSub(n.health, RMul(Q(1, 10), RSub(pressure, One))))
            ELSE IF RLt(pressure, One)
            THEN set_health(n, RAdd(n.health, Q(1, 100)))
            ELSE n

\* overload does no damage
update_health_spares_overload(n, total, capacity) ==
    IF capacity = Zero THEN n
    ELSE IF RLt(RDiv(total, capacity), One) /\ n.backlog = Zero
    THEN set_health(n, RAdd(n.health, Q(1, 100)))
    ELSE n

\* step, lines 107-117: health dynamics of a node already served
update_health(n, total, capacity) ==
    IF capacity = Zero THEN n
    ELSE LET pressure == RDiv(total, capacity)
             k == Q(1, 10)
         IN IF RLt(One, pressure)
            THEN set_health(n, RSub(n.health, RMul(k, RSub(pressure, One))))
            ELSE IF RLt(pressure, One) /\ n.backlog = Zero
            THEN set_health(n, RAdd(n.health, Q(1, 100)))
            ELSE n

\* step, lines 80-84: an unhealthy node serves nothing and keeps no backlog
unhealthy_state_kept(n) == n

unhealthy_state(n) == set_backlog(set_served(n, Zero), Zero)

\* step, line 94
served_uncapped(capacity, total) == total

served_amount(capacity, total) == RMin(capacity, total)

\* step, lines 96-105: a node whose outgoing edges are all disabled cannot drain
next_backlog_always_drains(s, i, total, served) == RSub(total, served)

next_backlog_never_drains(s, i, total, served) == total

\* treats a node without outgoing edges like one whose edges are all disabled
next_backlog_sink_blocked(s, i, total, served) ==
    IF ~has_active_edge(s, i) THEN total ELSE RSub(total, served)

next_backlog(s, i, total, served) ==
    IF Len(outgoing(i)) > 0 /\ ~has_active_edge(s, i)
    THEN total
    ELSE RSub(total, served)

\* step, lines 86-90: nominal capacity times the factor of the group's modifier
effective_capacity_nominal(s, i) == graph.nodes[i].capacity

effective_capacity(s, i) ==
    LET throttle == factor(s.capacity_mods[group_by_node_id(i)])
    IN RMul(graph.nodes[i].capacity, throttle)

\* runs the health dynamics on unhealthy nodes too
new_node_state_revives(s, i) ==
    LET n0 == set_demand(s.node_states[i], prop(s, i))
        capacity == effective_capacity(s, i)
        total == RAdd(prop(s, i), n0.backlog)
    IN IF ~is_healthy(n0)
       THEN update_health(unhealthy_state(n0), total, capacity)
       ELSE LET n1 == set_served(n0, served_amount(capacity, total))
                n2 == set_backlog(n1, next_backlog(s, i, total, n1.served))
            IN update_health(n2, total, capacity)

\* step, lines 78-118: the new state of node i
new_node_state(s, i) ==
    LET n0 == set_demand(s.node_states[i], prop(s, i))
    IN IF ~is_healthy(n0)
       THEN unhealthy_state(n0)
       ELSE LET capacity == effective_capacity(s, i)
                total == RAdd(prop(s, i), n0.backlog)
                n1 == set_served(n0, served_amount(capacity, total))
                n2 == set_backlog(n1, next_backlog(s, i, total, n1.served))
            IN update_health(n2, total, capacity)

\* step, line 120
next_turn_skips(t) == t + 2

next_turn(t) == t + 1

\* step, lines 124-129: the replaced snapshot becomes the only previous one
swap_previous_keeps_oldest(p, old) == IF p = <<>> THEN <<old>> ELSE p

swap_previous(p, old) == <<old>>

\* step, line 130
ops_after_step_carried(r) == r

ops_after_step(r) == ops_per_turn

\* ticks a copy for the new snapshot and retires the snapshot as it was before the tick
retired_snapshot_unticked(old, ticked) == old

\* step, lines 52 and 124-129: the tick is done in place, so the snapshot that
\* std::mem::replace returns carries the ticked modifiers
retired_snapshot(old, ticked) == ticked

\* the fields of a SimulationEngine that its operations change
Engine(cs, ps, ops) ==
    [current_snapshot |-> cs, previous_snapshot |-> ps, remaining_ops |-> ops]

engine == Engine(current_snapshot, previous_snapshot, remaining_ops)

\* step: the engine it leaves behind
step(e) ==
    LET ticked == SnapshotTick(e.current_snapshot)
        new_node_states == [i \in NodeIds |-> new_node_state(ticked, i)]
    IN Engine(SnapshotNew(next_turn(ticked.turn), new_node_states,
                          ticked.edge_states, ticked.capacity_mods),
              swap_previous(e.previous_snapshot, retired_snapshot(e.current_snapshot, ticked)),
              ops_after_step(e.remaining_ops))

\* a step whose reset of the operator budget may be lost
step_outcomes_racy(e) == {step(e), [step(e) EXCEPT !.remaining_ops = e.remaining_ops]}

\* step reads nothing but the engine, the graph, the groups and the scenario:
\* it has one outcome
step_outcomes(e) == {step(e)}

\* the second engine, built from equal inputs, is driven by the same calls
Step ==
    /\ current_snapshot.turn < MaxTurn
    /\ \E r \in step_outcomes(engine) :
           /\ current_snapshot' = r.current_snapshot
           /\ previous_snapshot' = r.previous_snapshot
           /\ remaining_ops' = r.remaining_ops
    /\ twin' \in step_outcomes(twin)
    /\ last_call' = [op |-> "step", group |-> 0, called |-> FALSE, ret |-> FALSE]
    /\ applied' = [g \in GroupIds |->
                     IF applied[g].ever
                     THEN [applied[g] EXCEPT !.ticks = @ + 1]
                     ELSE applied[g]]
    /\ UNCHANGED <<graph, groups, scenario, summaries>>

\* charges an op for every attempt that reaches apply, refused or not
ops_after_try_always_charges(r, called, ret) == IF called THEN r - 1 ELSE r

\* try_capacity_modifier, lines 144-146: an op is spent only when apply returned true
ops_after_try(r, called, ret) == IF called /\ ret THEN r - 1 ELSE r

\* applies without asking whether an op is left
capacity_modifier_outcomes_unguarded(e, g, f) ==
    LET r == update_capacity(e.current_snapshot, g, f)
    IN {[called |-> TRUE, ret |-> r[1],
         engine |-> Engine(r[2], e.previous_snapshot,
                           ops_after_try(e.remaining_ops, TRUE, r[1]))]}

\* try_capacity_modifier: && does not evaluate update_capacity when no op is left
capacity_modifier_outcomes(e, g, f) ==
    LET called == e.remaining_ops > 0
        r == update_capacity(e.current_snapshot, g, f)
    IN {[called |-> called, ret |-> called /\ r[1],
         engine |-> Engine(IF called THEN r[2] ELSE e.current_snapshot,
                           e.previous_snapshot,
                           ops_after_try(e.remaining_ops, called, r[1]))]}

try_capacity_modifier(name, g, f) ==
    /\ \E o \in capacity_modifier_outcomes(engine, g, f) :
           /\ current_snapshot' = o.engine.current_snapshot
           /\ remaining_ops' = o.engine.remaining_ops
           /\ last_call' = [op |-> name, group |-> g, called |-> o.called, ret |-> o.ret]
           /\ applied' = IF o.ret
                         THEN [applied EXCEPT ![g] = [ever |-> TRUE, factor |-> f, ticks |-> 0,
                                                  count |-> applied[g].count + 1]]
                         ELSE applied
    /\ \E o \in capacity_modifier_outcomes(twin, g, f) : twin' = o.engine
    /\ UNCHANGED <<graph, groups, scenario, previous_snapshot, summaries>>

TryThrottleGroup == \E g \in GroupIds : try_capacity_modifier("try_throttle_group", g, THROTTLE)

TryBoostGroup == \E g \in GroupIds : try_capacity_modifier("try_boost_group", g, BOOST)

(* -------------------------------------------------------------- analysis *)
\* sums over every node of the group, unhealthy ones included
calc_util_all_nodes(s, g) ==
    LET agg_served == RSum([k \in 1..Len(groups[g]) |-> s.node_states[groups[g][k]].served])
        agg_capacity == RSum([k \in 1..Len(groups[g]) |->
                                 RMul(graph.nodes[groups[g][k]].capacity,
                                      factor(s.capacity_mods[g]))])
    IN IF RLt(Zero, agg_capacity) THEN RDiv(agg_served, agg_capacity) ELSE Zero

\* calc_util: served over effective capacity, summed over the healthy nodes of
\* the group's node list; the modifier is the one stored at the group's own id
calc_util(s, g) ==
    LET hn == SelectSeq(groups[g], LAMBDA id : is_healthy(s.node_states[id]))
        agg_served == RSum([k \in 1..Len(hn) |-> s.node_states[hn[k]].served])
        agg_capacity == RSum([k \in 1..Len(hn) |->
                                 RMul(graph.nodes[hn[k]].capacity,
                                      factor(s.capacity_mods[g]))])
    IN IF RLt(Zero, agg_capacity) THEN RDiv(agg_served, agg_capacity) ELSE Zero

\* calc_health: mean health over the group's node list, 0 for an empty list
calc_health(s, g) ==
    LET h == [k \in 1..Len(groups[g]) |-> s.node_states[groups[g][k]].health]
    IN IF Len(h) = 0 THEN Zero ELSE RDiv(RSum(h), Q(Len(h), 1))

epsilon == Q(2, 100)

\* a difference of exactly epsilon already counts as a move
group_trend_inclusive(diff) ==
    IF RLe(epsilon, diff) THEN "Up"
    ELSE IF RLe(diff, RSub(Zero, epsilon)) THEN "Down"
    ELSE "Flat"

\* aggregate_groups, lines 58-64 and 70-76
group_trend(diff) ==
    IF RLt(epsilon, diff) THEN "Up"
    ELSE IF RLt(diff, RSub(Zero, epsilon)) THEN "Down"
    ELSE "Flat"

\* thresholds that include their bound
group_health_inclusive(n) ==
    IF RLe(Q(8, 10), n) THEN "Ok"
    ELSE IF RLe(Q(3, 10), n) THEN "Degraded"
    ELSE IF RLt(Zero, n) THEN "Critical"
    ELSE "Failed"

\* aggregate_groups, lines 78-83
group_health(n) ==
    IF RLt(Q(8, 10), n) THEN "Ok"
    ELSE IF RLt(Q(3, 10), n) THEN "Degraded"
    ELSE IF RLt(Zero, n) THEN "Critical"
    ELSE "Failed"

\* counts every node of the group as healthy
healthy_nodes_counts_all(s, g) == Len(groups[g])

\* aggregate_groups, lines 85-90
healthy_nodes(s, g) == Len(SelectSeq(groups[g], LAMBDA id : is_healthy(s.node_states[id])))

\* aggregate_groups, lines 93-95: the incoming edges of the group's nodes, in order
RECURSIVE incoming_of(_, _)
incoming_of(g, k) ==
    IF k > Len(groups[g]) THEN <<>>
    ELSE incoming(groups[g][k]) \o incoming_of(g, k + 1)

\* books every edge load under the group of the edge's target
pressure_by_target(s, g) ==
    LET es == incoming_of(g, 1)
    IN [sg \in GroupIds |->
           RSum([k \in 1..Len(es) |->
                    IF group_by_node_id(graph.edges[es[k]].to) = sg
                    THEN edge_load(s, es[k]) ELSE Zero])]

\* leaves out the edges into nodes that have failed
pressure_healthy_targets(s, g) ==
    LET es == incoming_of(g, 1)
    IN [sg \in GroupIds |->
           RSum([k \in 1..Len(es) |->
                    IF /\ group_by_node_id(graph.edges[es[k]].from) = sg
                       /\ is_healthy(s.node_states[graph.edges[es[k]].to])
                    THEN edge_load(s, es[k]) ELSE Zero])]

\* aggregate_groups, lines 92-101: edge loads into the group by group of the source
pressure(s, g) ==
    LET es == incoming_of(g, 1)
    IN [sg \in GroupIds |->
           RSum([k \in 1..Len(es) |->
                    IF group_by_node_id(graph.edges[es[k]].from) = sg
                    THEN edge_load(s, es[k]) ELSE Zero])]

\* aggregate_groups: one summary per group, in group order
aggregate_groups(cur, prev) ==
    [g \in GroupIds |->
        [avg_utilization |-> calc_util(cur, g),
         utilization_trend |-> group_trend(RSub(calc_util(cur, g), calc_util(prev, g))),
         node_count |-> Len(groups[g]),
         raw_health |-> calc_health(cur, g),
         health |-> group_health(calc_health(cur, g)),
         health_trend |-> group_trend(RSub(calc_health(cur, g), calc_health(prev, g))),
         healthy_nodes |-> healthy_nodes(cur, g),
         pressure |-> pressure(cur, g)]]

(* -------------------------------------------------- construction inputs *)
N(c, g) == [capacity |-> Q(c, 1), gain |-> Q(g, 1)]
E(f, t, w) == [from |-> f, to |-> t, weight |-> Q(w, 1)]

\* NodeState::new arguments <<demand, served, backlog>> of the initial snapshot
Idle(n) == [i \in 1..n |-> <<Zero, Zero, Zero>>]
L(d, s, b) == <<Q(d, 1), Q(s, 1), Q(b, 1)>>

\* two nodes in a chain, one group each (engine tests test_throttle, test_boost)
Chain ==
    [graph |-> [nodes |-> <<N(100, 1), N(40, 2)>>, edges |-> <<E(1, 2, 1)>>],
     groups |-> << <<1>>, <<2>> >>,
     scenario |-> [entry |-> <<1>>, base_load |-> Q(50, 1), ramp_per_turn |-> Q(25, 1),
                   max_load |-> Q(100, 1), ops |-> 1],
     edge_states |-> {<<TRUE>>, <<FALSE>>},
     start |-> {Idle(2)},
     health |-> {<<One, One>>, <<Q(1, 10), One>>, <<Zero, One>>}]

\* weighted split with parallel edges and a self-loop (engine test test_load_splitting)
Split ==
    [graph |-> [nodes |-> <<N(100, 1), N(100, 2), N(40, 1), N(40, 1)>>,
                edges |-> <<E(1, 3, 1), E(1, 4, 3), E(1, 4, 5), E(2, 3, 1), E(2, 2, 1)>>],
     groups |-> << <<1, 2>>, <<3, 4>> >>,
     scenario |-> [entry |-> <<1, 2>>, base_load |-> Q(10, 1), ramp_per_turn |-> Q(10, 1),
                   max_load |-> Q(400, 1), ops |-> 2],
     edge_states |-> {<<TRUE, TRUE, TRUE, TRUE, TRUE>>, <<TRUE, TRUE, FALSE, TRUE, TRUE>>,
                      <<FALSE, FALSE, FALSE, TRUE, TRUE>>},
     start |-> {Idle(4)},
     health |-> {<<One, One, One, One>>, <<One, Zero, One, One>>}]

\* zero capacity, zero weight, a cycle and a sink in a single group
Degenerate ==
    [graph |-> [nodes |-> <<N(20, 1), N(0, 1), N(20, 1), N(10, 0)>>,
                edges |-> <<E(1, 2, 0), E(3, 1, 1), E(1, 3, 0), E(3, 4, 1)>>],
     groups |-> << <<1, 2, 3, 4>> >>,
     scenario |-> [entry |-> <<3, 2>>, base_load |-> Q(15, 1), ramp_per_turn |-> Q(5, 1),
                   max_load |-> Q(30, 1), ops |-> 1],
     edge_states |-> {<<TRUE, TRUE, TRUE, TRUE>>, <<TRUE, TRUE, FALSE, FALSE>>},
     start |-> {Idle(4)},
     health |-> {<<One, One, One, One>>, <<One, One, Q(1, 20), Zero>>}]

\* engine test test_load_splitting as the specification's scenario S6 states it:
\* the third edge disabled, the second node unhealthy
LoadSplitting ==
    [graph |-> [nodes |-> <<N(100, 1), N(100, 1), N(40, 1), N(40, 1), N(40, 1)>>,
                edges |-> <<E(1, 3, 1), E(1, 4, 3), E(1, 5, 5), E(2, 3, 1), E(2, 4, 1)>>],
     groups |-> << <<1, 2>>, <<3, 4, 5>> >>,
     scenario |-> [entry |-> <<1, 2>>, base_load |-> Q(10, 1), ramp_per_turn |-> Q(10, 1),
                   max_load |-> Q(400, 1), ops |-> 1],
     edge_states |-> {<<TRUE, TRUE, FALSE, TRUE, TRUE>>},
     start |-> {Idle(5)},
     health |-> {<<One, Zero, One, One, One>>}]

\* engine tests test_backlog_accumulates_when_over_capacity (edge enabled) and
\* test_disabled_edge_block_propagation (edge disabled) under a constant load
Blocked ==
    [graph |-> [nodes |-> <<N(100, 1), N(40, 1)>>, edges |-> <<E(1, 2, 1)>>],
     groups |-> << <<1, 2>> >>,
     scenario |-> [entry |-> <<1>>, base_load |-> Q(50, 1), ramp_per_turn |-> Q(0, 1),
                   max_load |-> Q(50, 1), ops |-> 1],
     edge_states |-> {<<FALSE>>, <<TRUE>>},
     start |-> {Idle(2)},
     health |-> {<<One, One>>}]

\* engine test test_one_hop_propagation with the entry node listed twice
Repeated ==
    [graph |-> [nodes |-> <<N(100, 1), N(60, 1)>>, edges |-> <<E(1, 2, 1)>>],
     groups |-> << <<1, 2>> >>,
     scenario |-> [entry |-> <<1, 1>>, base_load |-> Q(10, 1), ramp_per_turn |-> Q(10, 1),
                   max_load |-> Q(400, 1), ops |-> 1],
     edge_states |-> {<<TRUE>>},
     start |-> {Idle(2)},
     health |-> {<<One, One>>}]

\* analysis test test_avg_utilisation_per_group: the engine starts from a snapshot
\* whose nodes already serve load (db2 serving its whole capacity) and are worn
Utilisation ==
    [graph |-> [nodes |-> <<N(100, 1), N(60, 1), N(80, 1), N(10, 1)>>,
                edges |-> <<E(1, 2, 1), E(3, 4, 1)>>],
     groups |-> << <<1, 2>>, <<3, 4>> >>,
     scenario |-> [entry |-> <<1, 3>>, base_load |-> Q(40, 1), ramp_per_turn |-> Q(30, 1),
                   max_load |-> Q(100, 1), ops |-> 1],
     edge_states |-> {<<TRUE, TRUE>>},
     start |-> {<<L(10, 10, 0), L(50, 50, 5), L(30, 30, 0), L(20, 10, 10)>>},
     health |-> {<<Q(1, 2), Q(1, 5), Q(1, 20), Q(4, 5)>>, <<Q(1, 2), Zero, Q(1, 20), Q(4, 5)>>}]

\* engine test test_backlog_accumulates_when_over_capacity with an entry node
\* whose capacity is below the constant scenario load
Overload ==
    [graph |-> [nodes |-> <<N(10, 1), N(40, 1)>>, edges |-> <<E(1, 2, 1)>>],
     groups |-> << <<1, 2>> >>,
     scenario |-> [entry |-> <<1>>, base_load |-> Q(50, 1), ramp_per_turn |-> Q(0, 1),
                   max_load |-> Q(50, 1), ops |-> 1],
     edge_states |-> {<<TRUE>>, <<FALSE>>},
     start |-> {Idle(2)},
     health |-> {<<One, One>>, <<Q(1, 2), One>>}]

Worlds == {Chain, Split, Degenerate, LoadSplitting, Blocked, Repeated, Utilisation, Overload}

\* SimulationEngine::new on a snapshot at turn 0 with baseline modifiers
Init ==
    \E w \in Worlds : \E es \in w.edge_states : \E h \in w.health : \E l \in w.start :
        /\ graph = w.graph
        /\ groups = w.groups
        /\ scenario = w.scenario
        /\ current_snapshot =
               SnapshotNew(0, [i \in 1..Len(w.graph.nodes) |->
                                  NodeStateNew(l[i][1], l[i][2], l[i][3], h[i])],
                           es, [g \in 1..Len(w.groups) |-> ModNew])
        /\ previous_snapshot = <<>>
        /\ remaining_ops = w.scenario.ops
        /\ last_call = [op |-> "new", group |-> 0, called |-> FALSE, ret |-> FALSE]
        /\ applied = [g \in 1..Len(w.groups) |->
                         [ever |-> FALSE, factor |-> One, ticks |-> 0, count |-> 0]]
        /\ twin = engine
        /\ summaries = <<>>

Next == Step \/ TryThrottleGroup \/ TryBoostGroup

Spec == Init /\ [][Next]_vars

\* the engine built on the overloaded entry node, stepped for as long as it runs
InitLive == Init /\ graph = Overload.graph /\ scenario = Overload.scenario

\* the event loop of main.rs calls step() on every press of the space key and
\* step never blocks; a run in which steps keep being taken is weakly fair to
\* Step.  Step always advances the turn, so ENABLED <<Step>>_vars is the turn
\* guard, and WF_vars(Step) is written out with it.
StepEnabled == current_snapshot.turn < MaxTurn
SpecLive == InitLive /\ [][Next]_vars /\ ([]<>~StepEnabled \/ []<><<Step>>_vars)

(* ----------------------------------------------------------- construction *)
\* GroupSet::new indexes a vector of nodes_cnt entries with every listed node id
GroupSetNewPanics ==
    \E g \in 1..Len(groups) : \E k \in 1..Len(groups[g]) : groups[g][k] > NodesCnt

\* group lists handed to GroupSet::new for the two-node graph of Chain
GroupLists ==
    { << <<1>>, <<2>> >>, << <<1, 2>> >>, << <<1, 2>>, <<>> >>,
      << <<1, 2>>, <<2>> >>, << <<1>>, <<1>> >>, << <<1, 1>>, <<2>> >>,
      << <<1>> >>, << <<2>> >>, << <<1>>, <<3>> >>, << <<1, 2>>, <<3>> >> }

\* lengths of the node-state, edge-state and modifier vectors of the initial snapshot
VectorLengths == {<<n, e, m>> : n \in 1..3, e \in 0..2, m \in 1..3}

\* the arguments of GroupSet::new and SimulationEngine::new before they are called
InitNew ==
    \E gs \in GroupLists : \E l \in VectorLengths :
        /\ graph = Chain.graph
        /\ groups = gs
        /\ scenario = Chain.scenario
        /\ current_snapshot =
               SnapshotNew(0, [i \in 1..l[1] |-> NodeStateNew(Zero, Zero, Zero, One)],
                           [i \in 1..l[2] |-> TRUE], [g \in 1..l[3] |-> ModNew])
        /\ previous_snapshot = <<>>
        /\ remaining_ops = 0
        /\ last_call = [op |-> "inputs", group |-> 0, called |-> FALSE, ret |-> FALSE]
        /\ applied = [g \in 1..Len(gs) |-> [ever |-> FALSE, factor |-> One, ticks |-> 0, count |-> 0]]
        /\ twin = engine
        /\ summaries = <<>>

\* GroupSet::new panics on an index out of range: no engine is built
NewPanics ==
    /\ last_call.op = "inputs"
    /\ GroupSetNewPanics
    /\ last_call' = [last_call EXCEPT !.op = "panic"]
    /\ UNCHANGED <<graph, groups, scenario, current_snapshot, previous_snapshot,
                   remaining_ops, applied, twin, summaries>>

\* GroupSet::new returns and SimulationEngine::new stores its arguments unchecked
New ==
    /\ last_call.op = "inputs"
    /\ ~GroupSetNewPanics
    /\ remaining_ops' = ops_per_turn
    /\ twin' = [twin EXCEPT !.remaining_ops = ops_per_turn]
    /\ last_call' = [last_call EXCEPT !.op = "new"]
    /\ UNCHANGED <<graph, groups, scenario, current_snapshot, previous_snapshot, applied,
                   summaries>>

NextNew == NewPanics \/ New

SpecNew == InitNew /\ [][NextNew]_vars

(* --------------------------------------------------- analysis of a pair *)
\* analysis test test_pressure_grouping: its graph with one more edge, between
\* the two nodes of the first group, and its groups with an empty fourth group
PressureGraph ==
    [nodes |-> <<N(100, 1), N(100, 1), N(100, 1), N(100, 1), N(100, 1)>>,
     edges |-> <<E(1, 5, 1), E(2, 5, 1), E(3, 5, 2), E(5, 4, 2), E(5, 5, 1), E(2, 1, 1),
                 E(4, 1, 1)>>]

PressureGroups == << <<1, 4>>, <<2, 3>>, <<5>>, <<>> >>

\* health and served values handed to NodeState::new, as hundredths
HealthLevels == {0, 10, 30, 50, 52, 80, 90}
ServedLevels == {0, 50, 52}

\* the current snapshots handed to aggregate_groups
CurrentInputs ==
    {SnapshotNew(6,
        <<NodeStateNew(Q(30, 1), Q(30, 1), Zero, Q(h1, 100)),
          NodeStateNew(Q(20, 1), Q(20, 1), Zero, Q(h2, 100)),
          NodeStateNew(Q(30, 1), Q(30, 1), Zero, Q(30, 100)),
          NodeStateNew(Q(20, 1), Q(20, 1), Zero, Q(h4, 100)),
          NodeStateNew(Q(s5, 1), Q(s5, 1), Zero, Q(h5, 100))>>,
        [e \in 1..7 |-> e # d],
        [g \in 1..4 |-> IF g = t THEN apply(ModNew, THROTTLE)[2] ELSE ModNew]) :
     h1 \in {0, 40, 100}, h2 \in {0, 80}, h4 \in {20, 60}, h5 \in HealthLevels,
     s5 \in ServedLevels, d \in {0, 3}, t \in {0, 3}}

\* the previous snapshots handed to aggregate_groups
PreviousInputs ==
    {SnapshotNew(5,
        <<NodeStateNew(Q(20, 1), Q(20, 1), Zero, Q(90, 100)),
          NodeStateNew(Q(10, 1), Q(10, 1), Zero, Q(80, 100)),
          NodeStateNew(Q(20, 1), Q(20, 1), Zero, Q(10, 100)),
          NodeStateNew(Q(10, 1), Q(10, 1), Zero, Q(10, 100)),
          NodeStateNew(Q(s5, 1), Q(s5, 1), Zero, Q(h5, 100))>>,
        [e \in 1..7 |-> TRUE],
        [g \in 1..4 |-> ModNew]) :
     h5 \in {50, 54}, s5 \in {50, 54}}

\* the arguments of aggregate_groups before it is called
InitAnalysis ==
    \E cur \in CurrentInputs : \E prev \in PreviousInputs :
        /\ graph = PressureGraph
        /\ groups = PressureGroups
        /\ scenario = Chain.scenario
        /\ current_snapshot = cur
        /\ previous_snapshot = <<prev>>
        /\ remaining_ops = 0
        /\ last_call = [op |-> "inputs", group |-> 0, called |-> FALSE, ret |-> FALSE]
        /\ applied = [g \in 1..Len(PressureGroups) |->
                         [ever |-> FALSE, factor |-> One, ticks |-> 0, count |-> 0]]
        /\ twin = engine
        /\ summaries = <<>>

\* let summaries = aggregate_groups(&groupset, &current_snapshot, &previous_snapshot, &graph)
AggregateGroups ==
    /\ last_call.op = "inputs"
    /\ summaries' = aggregate_groups(current, previous)
    /\ last_call' = [last_call EXCEPT !.op = "aggregate_groups"]
    /\ UNCHANGED <<graph, groups, scenario, current_snapshot, previous_snapshot,
                   remaining_ops, applied, twin>>

NextAnalysis == AggregateGroups

SpecAnalysis == InitAnalysis /\ [][NextAnalysis]_vars

(* ------------------------------------------------------------ properties *)
AfterStep == last_call.op = "step"

EffCap(s, i) == RMul(graph.nodes[i].capacity, factor(s.capacity_mods[group_by_node_id(i)]))

NoDrain(s, i) == Len(outgoing(i)) > 0 /\ ~has_active_edge(s, i)

\* demand of the current state plus the backlog the node had before the step
TotalIn(i) == RAdd(current.node_states[i].demand, previous.node_states[i].backlog)

\* C1: right after every step every node of the current snapshot has
\* 0 <= served <= capacity x factor of its group's modifier in that snapshot,
\* backlog >= 0 and 0 <= health <= 1.
C1_NodeBounds ==
    AfterStep =>
        \A i \in NodeIds :
            LET n == current.node_states[i]
            IN /\ RLe(Zero, n.served)
               /\ RLe(n.served, EffCap(current, i))
               /\ RLe(Zero, n.backlog)
               /\ RLe(Zero, n.health)
               /\ RLe(n.health, One)

\* a throttled node that serves exactly its effective capacity and keeps a backlog
C1_Witness ==
    /\ AfterStep
    /\ \E i \in NodeIds :
           /\ factor(current.capacity_mods[group_by_node_id(i)]) = THROTTLE
           /\ current.node_states[i].served = EffCap(current, i)
           /\ RLt(Zero, current.node_states[i].backlog)

\* C2 as stated: right after every step every unhealthy node of the current
\* snapshot has served = 0 and backlog = 0, also when its health reached 0 in
\* that very step.
C2_Original ==
    AfterStep =>
        \A i \in NodeIds :
            ~is_healthy(current.node_states[i]) =>
                /\ current.node_states[i].served = Zero
                /\ current.node_states[i].backlog = Zero

\* C2 amended: right after every step every node that was unhealthy before the
\* step has served = 0 and backlog = 0 and is still unhealthy.
C2_UnhealthyBeforeStep ==
    AfterStep =>
        \A i \in NodeIds :
            ~is_healthy(previous.node_states[i]) =>
                /\ current.node_states[i].served = Zero
                /\ current.node_states[i].backlog = Zero
                /\ ~is_healthy(current.node_states[i])

\* a node whose health reached 0 in one step while serving, reset by the next step
C2_Witness ==
    /\ AfterStep
    /\ \E i \in NodeIds :
           /\ ~is_healthy(previous.node_states[i])
           /\ RLt(Zero, previous.node_states[i].served)
           /\ RLt(Zero, current.node_states[i].demand)
           /\ current.node_states[i].served = Zero

\* C3: work conservation.  Right after every step, every node that is healthy
\* (before the step, hence also every node healthy after it), has an enabled
\* outgoing edge and effective capacity > 0 satisfies served + backlog =
\* demand + backlog before the step; when that total fits the effective
\* capacity it is served whole and the backlog is 0.
C3_WorkConservation ==
    AfterStep =>
        \A i \in NodeIds :
            (/\ is_healthy(previous.node_states[i])
             /\ has_active_edge(current, i)
             /\ RLt(Zero, EffCap(current, i)))
            => LET n == current.node_states[i]
               IN /\ RAdd(n.served, n.backlog) = TotalIn(i)
                  /\ (RLe(TotalIn(i), EffCap(current, i))
                        => n.served = TotalIn(i) /\ n.backlog = Zero)

\* a healthy node with an enabled edge that carried a backlog into the step and
\* still could not serve everything
C3_Witness ==
    /\ AfterStep
    /\ \E i \in NodeIds :
           /\ is_healthy(current.node_states[i])
           /\ has_active_edge(current, i)
           /\ RLt(Zero, previous.node_states[i].backlog)
           /\ RLt(Zero, current.node_states[i].backlog)
           /\ RLt(Zero, current.node_states[i].served)

EnabledOut(s, u) == SelectSeq(outgoing(u), LAMBDA e : s.edge_states[e])

FlowOut(s, u) == RSum([k \in 1..Len(EnabledOut(s, u)) |-> edge_load(s, EnabledOut(s, u)[k])])

FlowConserved(s) ==
    \A u \in NodeIds :
        /\ (is_healthy(s.node_states[u]) /\ RLt(Zero, total_weight(s, u)))
              => FlowOut(s, u) = RMul(s.node_states[u].served, graph.nodes[u].gain)
        /\ \A k \in 1..Len(outgoing(u)) :
              ~s.edge_states[outgoing(u)[k]] => edge_load(s, outgoing(u)[k]) = Zero

\* C4: flow conservation.  In the current and the previous snapshot of every
\* reachable state, the edge loads over the enabled outgoing edges of a
\* healthy producer with weight sum W > 0 add up to served x gain, and every
\* disabled outgoing edge carries 0.
C4_FlowConservation == FlowConserved(current) /\ FlowConserved(previous)

\* a healthy producer that serves, with two enabled outgoing edges and a disabled one
C4_Witness ==
    \E u \in NodeIds :
        /\ is_healthy(current.node_states[u])
        /\ RLt(Zero, current.node_states[u].served)
        /\ Len(EnabledOut(current, u)) >= 2
        /\ Len(EnabledOut(current, u)) < Len(outgoing(u))
        /\ RLt(Zero, FlowOut(current, u))

\* demand that reaches v in a step from producers that have an enabled edge,
\* plus the scenario load
DemandFromDraining(v) ==
    LET inc == SelectSeq(incoming(v), LAMBDA e : ~NoDrain(previous, graph.edges[e].from))
        ent == SelectSeq(scenario.entry, LAMBDA id : id = v)
    IN RAdd(RSum([k \in 1..Len(inc) |-> edge_load(previous, inc[k])]),
            RSum([k \in 1..Len(ent) |-> load(ent[k], previous.turn)]))

NoLoadLeaves(i) ==
    /\ \A k \in 1..Len(outgoing(i)) : edge_load(current, outgoing(i)[k]) = Zero
    /\ \A k \in 1..Len(outgoing(i)) : edge_load(previous, outgoing(i)[k]) = Zero

\* C5 as stated: right after every step every node with outgoing edges none of
\* which is enabled has backlog = demand + backlog before the step, and no
\* load leaves it.
C5_Original ==
    AfterStep =>
        /\ \A i \in NodeIds :
               NoDrain(current, i) =>
                   /\ current.node_states[i].backlog = TotalIn(i)
                   /\ NoLoadLeaves(i)
        /\ \A v \in NodeIds : current.node_states[v].demand = DemandFromDraining(v)

\* C5 amended: the backlog rule holds for the nodes that were healthy before
\* the step (a node unhealthy before the step has backlog 0 whatever its
\* demand); no load leaves any node without an enabled outgoing edge.
C5_NoDrain ==
    AfterStep =>
        /\ \A i \in NodeIds :
               NoDrain(current, i) =>
                   /\ is_healthy(previous.node_states[i])
                         => current.node_states[i].backlog = TotalIn(i)
                   /\ ~is_healthy(previous.node_states[i])
                         => current.node_states[i].backlog = Zero
                   /\ NoLoadLeaves(i)
        /\ \A v \in NodeIds : current.node_states[v].demand = DemandFromDraining(v)

\* a healthy node without an enabled edge that serves and piles up more than one
\* turn of demand, next to a successor that receives nothing
C5_Witness ==
    /\ AfterStep
    /\ \E i \in NodeIds :
           /\ NoDrain(current, i)
           /\ is_healthy(previous.node_states[i])
           /\ RLt(Zero, current.node_states[i].served)
           /\ RLt(Zero, previous.node_states[i].backlog)
           /\ RLt(current.node_states[i].demand, current.node_states[i].backlog)
           /\ \E k \in 1..Len(outgoing(i)) :
                  current.node_states[graph.edges[outgoing(i)[k]].to].demand = Zero

Mods == [g \in GroupIds |-> current.capacity_mods[g]]

\* C6 as stated: after a successful apply the modifier is active and
\* just_applied with remaining = total_turns; the first tick only clears
\* just_applied; after total_turns ticks in all the modifier is inactive.
C6_Original ==
    \A g \in GroupIds :
        applied[g].ever =>
            /\ applied[g].ticks = 0 =>
                   /\ Mods[g].active /\ Mods[g].just_applied
                   /\ Mods[g].remaining = Mods[g].turns
            /\ applied[g].ticks = 1 =>
                   /\ Mods[g].active /\ ~Mods[g].just_applied
                   /\ Mods[g].remaining = Mods[g].turns
            /\ applied[g].ticks = TURNS => ~Mods[g].active

\* C6 amended: as stated up to the first tick; each further tick decrements
\* remaining, the modifier is still active after total_turns ticks in all
\* (remaining = 1) and inactive after total_turns further ticks, i.e.
\* total_turns + 1 ticks in all since the apply.
C6_Lifecycle ==
    \A g \in GroupIds :
        applied[g].ever =>
            /\ applied[g].ticks = 0 =>
                   /\ Mods[g].active /\ Mods[g].just_applied
                   /\ Mods[g].remaining = Mods[g].turns
            /\ applied[g].ticks = 1 =>
                   /\ Mods[g].active /\ ~Mods[g].just_applied
                   /\ Mods[g].remaining = Mods[g].turns
            /\ applied[g].ticks \in 2..TURNS =>
                   /\ Mods[g].active /\ ~Mods[g].just_applied
                   /\ Mods[g].remaining = Mods[g].turns - (applied[g].ticks - 1)
            /\ applied[g].ticks = TURNS + 1 => ~Mods[g].active

\* a modifier that went through its whole life: applied, then total_turns + 1 ticks
C6_Witness ==
    \E g \in GroupIds :
        applied[g].ever /\ applied[g].ticks = TURNS + 1 /\ ~Mods[g].active

\* C7: total_turns + 1 ticks after a successful apply (and no apply since)
\* the modifier is inactive and factor() returns 1.0.
C7_ExpiredAfterTurnsPlusOne ==
    \A g \in GroupIds :
        (applied[g].ever /\ applied[g].ticks = TURNS + 1) =>
            ~is_active(Mods[g]) /\ factor(Mods[g]) = One

\* a throttle that was applied and has just expired with the step that made
\* the tick count total_turns + 1
C7_Witness ==
    /\ AfterStep
    /\ \E g \in GroupIds :
           /\ applied[g].ever /\ applied[g].factor = THROTTLE
           /\ applied[g].ticks = TURNS + 1
           /\ previous.capacity_mods[g] = ModNew
           /\ factor(Mods[g]) = One

\* the factor a step uses for group g when it is the j-th step since the apply
FactorInStep(g) ==
    IF applied[g].ever /\ applied[g].ticks \in 1..TURNS THEN applied[g].factor ELSE One

\* C8: a throttle or boost applied between two steps is in effect in exactly
\* the next total_turns = 3 steps and the group is back at factor 1.0 in the
\* fourth: right after the j-th step since the apply, every node of the group
\* that was healthy before the step has served = min(capacity x f, demand +
\* backlog before the step) for j = 1..3 and min(capacity, ...) for j = 4, and
\* the modifier published by the step reports that factor.
C8_InEffectThreeSteps ==
    AfterStep =>
        \A g \in GroupIds :
            (applied[g].ever /\ applied[g].ticks \in 1..(TURNS + 1)) =>
                /\ factor(Mods[g]) = FactorInStep(g)
                /\ \A i \in NodeIds :
                       (group_by_node_id(i) = g /\ is_healthy(previous.node_states[i])) =>
                           current.node_states[i].served =
                               RMin(RMul(graph.nodes[i].capacity, FactorInStep(g)), TotalIn(i))

\* the third step under a throttle still caps a node at half its capacity
C8_Witness ==
    /\ AfterStep
    /\ \E g \in GroupIds :
           /\ applied[g].ever /\ applied[g].ticks = TURNS /\ applied[g].factor = THROTTLE
           /\ \E i \in NodeIds :
                  /\ group_by_node_id(i) = g
                  /\ is_healthy(previous.node_states[i])
                  /\ RLt(Zero, graph.nodes[i].capacity)
                  /\ current.node_states[i].served = RMul(graph.nodes[i].capacity, THROTTLE)
                  /\ RLt(current.node_states[i].served, TotalIn(i))

ModInvariant(m) ==
    /\ ~m.active => (m.factor = One /\ m.remaining = 0)
    /\ m.just_applied => m.active
    /\ m.remaining <= m.turns
    /\ ~m.active => m = ModNew

\* C9: every modifier of the current and of the previous snapshot satisfies:
\* inactive implies factor = 1.0 and remaining = 0; just_applied implies
\* active; remaining <= total_turns; an inactive modifier equals a freshly
\* constructed one.
C9_ModifierInvariant ==
    \A g \in GroupIds :
        ModInvariant(current.capacity_mods[g]) /\ ModInvariant(previous.capacity_mods[g])

\* a boost that has expired
C9_Witness ==
    \E g \in GroupIds :
        /\ applied[g].ever /\ applied[g].factor = BOOST
        /\ ~Mods[g].active
        /\ Mods[g] = ModNew

CallFactor(c) == IF c.op = "try_throttle_group" THEN THROTTLE ELSE BOOST

\* C10: apply on an active modifier returns false and leaves the modifier as
\* it was, whatever the factor asked for; apply on an inactive modifier
\* returns true and sets factor = f, active, just_applied and remaining =
\* total_turns.
C10_Apply ==
    [][(last_call'.op \in {"try_throttle_group", "try_boost_group"} /\ last_call'.called) =>
          LET g == last_call'.group
              m == current_snapshot.capacity_mods[g]
              m2 == current_snapshot'.capacity_mods[g]
          IN /\ m.active => (~last_call'.ret /\ m2 = m)
             /\ ~m.active =>
                    /\ last_call'.ret
                    /\ m2 = [factor |-> CallFactor(last_call'), active |-> TRUE,
                             just_applied |-> TRUE, turns |-> m.turns,
                             remaining |-> m.turns]]_vars

\* a boost refused on a group that is throttled and already counting down
C10_Witness ==
    /\ last_call.op = "try_boost_group" /\ last_call.called /\ ~last_call.ret
    /\ Mods[last_call.group].active
    /\ Mods[last_call.group].factor = THROTTLE
    /\ Mods[last_call.group].remaining < TURNS

IsTryCall(c) == c.op \in {"try_throttle_group", "try_boost_group"}

\* C11: a try_throttle_group / try_boost_group call with remaining_ops = 0
\* changes nothing of the engine (the modifier is not touched even when
\* inactive); otherwise apply is attempted with 0.5 / 1.5 on the group's
\* modifier and remaining_ops drops by exactly 1 if and only if apply
\* succeeded, a refused apply costing nothing.
C11_TryApply ==
    [][IsTryCall(last_call') =>
          LET g == last_call'.group
              r == apply(current_snapshot.capacity_mods[g], CallFactor(last_call'))
          IN /\ remaining_ops = 0 =>
                    /\ ~last_call'.called
                    /\ current_snapshot' = current_snapshot
                    /\ remaining_ops' = 0
                    /\ previous_snapshot' = previous_snapshot
             /\ remaining_ops > 0 =>
                    /\ last_call'.called
                    /\ last_call'.ret = r[1]
                    /\ current_snapshot'.capacity_mods[g] = r[2]
                    /\ remaining_ops' = IF r[1] THEN remaining_ops - 1 ELSE remaining_ops
                    /\ (remaining_ops' = remaining_ops - 1) <=>
                           ~current_snapshot.capacity_mods[g].active]_vars

\* a call made with no op left on a group whose modifier is inactive
C11_Witness ==
    /\ IsTryCall(last_call) /\ ~last_call.called
    /\ remaining_ops = 0
    /\ ~Mods[last_call.group].active
    /\ \E g \in GroupIds : Mods[g].just_applied

\* C12: remaining_ops equals scenario.ops_per_turn() right after construction
\* and right after every step, whatever was used in the turn before.
C12_OpsReset ==
    last_call.op \in {"new", "step"} => remaining_ops = scenario.ops

\* a step that follows a turn in which an op was used
C12_Witness ==
    /\ AfterStep
    /\ remaining_ops = scenario.ops
    /\ \E g \in GroupIds : applied[g].ever /\ applied[g].ticks = 1

\* C13: the turn of the current snapshot grows by exactly 1 with every step
\* and is left alone by try_throttle_group and try_boost_group.
C13_Turn ==
    [][/\ last_call'.op = "step" => current_snapshot'.turn = current_snapshot.turn + 1
       /\ IsTryCall(last_call') => current_snapshot'.turn = current_snapshot.turn]_vars

\* a successful throttle made after the second step, the turn still being 2
C13_Witness ==
    /\ last_call.op = "try_throttle_group" /\ last_call.ret
    /\ current.turn = 2
    /\ previous.turn = 1

\* C14: right after a step every node that was healthy before it has served =
\* min(capacity x f, demand + backlog before the step), f being the factor of
\* its group's modifier after the tick of this step; in the first step after
\* a successful throttle or boost f is already the applied factor.
C14_ServedUnderFactor ==
    AfterStep =>
        \A i \in NodeIds :
            LET g == group_by_node_id(i)
                f == IF applied[g].ever /\ applied[g].ticks = 1
                     THEN applied[g].factor
                     ELSE factor(previous.capacity_mods[g])
            IN is_healthy(previous.node_states[i]) =>
                   current.node_states[i].served =
                       RMin(RMul(graph.nodes[i].capacity, f), TotalIn(i))

\* a boost lets a node serve more than its nominal capacity in the very next step
C14_Witness ==
    /\ AfterStep
    /\ \E i \in NodeIds :
           /\ applied[group_by_node_id(i)].ever
           /\ applied[group_by_node_id(i)].ticks = 1
           /\ applied[group_by_node_id(i)].factor = BOOST
           /\ RLt(graph.nodes[i].capacity, current.node_states[i].served)

IsEntry(v) == \E k \in 1..Len(scenario.entry) : scenario.entry[k] = v

InFlow(s, v) == RSum([k \in 1..Len(incoming(v)) |-> edge_load(s, incoming(v)[k])])

\* C15: one-turn propagation.  Right after the step from turn t to t + 1 the
\* demand of every node v is the sum of edge_load over its incoming edges on
\* the snapshot before the step, plus scenario.load(v, t) if v is an entry
\* node.
C15_OneTurnPropagation ==
    AfterStep =>
        \A v \in NodeIds :
            current.node_states[v].demand =
                RAdd(InFlow(previous, v),
                     IF IsEntry(v) THEN load(v, previous.turn) ELSE Zero)

InWorld(w) == graph = w.graph /\ groups = w.groups /\ scenario = w.scenario

NoOperatorAction == \A g \in GroupIds : ~applied[g].ever

\* C16 as stated: in scenario S6, after step 2, A.served = 20, X.demand = 5,
\* Y.demand = 15 and Z.demand = 0.
C16_Original ==
    (InWorld(LoadSplitting) /\ current.turn = 2) =>
        /\ current.node_states[1].served = Q(20, 1)
        /\ current.node_states[3].demand = Q(5, 1)
        /\ current.node_states[4].demand = Q(15, 1)
        /\ current.node_states[5].demand = Zero

\* C16 amended: after step 2, A.served = 20, X.demand = 2.5, Y.demand = 7.5
\* and Z.demand = 0 (the split of the 10 that A served in step 1); X.demand =
\* 5 and Y.demand = 15 are reached after step 3.
C16_LoadSplitting ==
    InWorld(LoadSplitting) =>
        /\ current.turn = 2 =>
               /\ current.node_states[1].served = Q(20, 1)
               /\ current.node_states[3].demand = Q(5, 2)
               /\ current.node_states[4].demand = Q(15, 2)
               /\ current.node_states[5].demand = Zero
        /\ current.turn = 3 =>
               /\ current.node_states[3].demand = Q(5, 1)
               /\ current.node_states[4].demand = Q(15, 1)
               /\ current.node_states[5].demand = Zero

\* scenario S6 right after its second step
C16_Witness ==
    /\ InWorld(LoadSplitting) /\ AfterStep /\ current.turn = 2
    /\ current.node_states[1].served = Q(20, 1)
    /\ current.node_states[3].demand = Q(5, 2)
    /\ ~is_healthy(current.node_states[2])

InS4 == InWorld(Blocked) /\ current.edge_states = <<FALSE>> /\ NoOperatorAction

\* C17 as stated: in scenario S4, after step 1 A.served = 50 and A.backlog =
\* 50; after step 2 A.demand = 50, A.served = 50 and A.backlog = 100; B's
\* demand, served and backlog are 0 after every step.
C17_Original ==
    InS4 =>
        /\ current.turn = 1 =>
               /\ current.node_states[1].served = Q(50, 1)
               /\ current.node_states[1].backlog = Q(50, 1)
        /\ current.turn = 2 =>
               /\ current.node_states[1].demand = Q(50, 1)
               /\ current.node_states[1].served = Q(50, 1)
               /\ current.node_states[1].backlog = Q(100, 1)
        /\ current.node_states[2] = NodeStateNew(Zero, Zero, Zero, One)

\* C17 amended: after step 2 A.served = 100, because the 50 kept as backlog
\* is served again together with the new 50; everything else as stated.
C17_DisabledEdge ==
    InS4 =>
        /\ current.turn = 1 =>
               /\ current.node_states[1].served = Q(50, 1)
               /\ current.node_states[1].backlog = Q(50, 1)
        /\ current.turn = 2 =>
               /\ current.node_states[1].demand = Q(50, 1)
               /\ current.node_states[1].served = Q(100, 1)
               /\ current.node_states[1].backlog = Q(100, 1)
        /\ current.node_states[2] = NodeStateNew(Zero, Zero, Zero, One)

\* scenario S4 right after its second step
C17_Witness ==
    /\ InS4 /\ AfterStep /\ current.turn = 2
    /\ current.node_states[1].backlog = Q(100, 1)
    /\ current.node_states[2].demand = Zero

\* the weight sum W of the enabled outgoing edges of u, and the rule of C18
EnabledWeight(s, u) ==
    RSum([k \in 1..Len(outgoing(u)) |->
             IF s.edge_states[outgoing(u)[k]]
             THEN graph.edges[outgoing(u)[k]].weight ELSE Zero])

EdgeLoadRule(s, e) ==
    LET u == graph.edges[e].from
    IN IF \/ ~RLt(Zero, s.node_states[u].health)
          \/ ~s.edge_states[e]
          \/ s.node_states[u].served = Zero
          \/ EnabledWeight(s, u) = Zero
       THEN Zero
       ELSE RDiv(RMul(RMul(s.node_states[u].served, graph.nodes[u].gain),
                      graph.edges[e].weight),
                 EnabledWeight(s, u))

Disabled(s, d) == [s EXCEPT !.edge_states[d] = FALSE]

EdgeLoadAsRuled(s) ==
    /\ \A e \in EdgeIds : edge_load(s, e) = EdgeLoadRule(s, e)
    /\ \A d \in EdgeIds :
           LET u == graph.edges[d].from
               s2 == Disabled(s, d)
           IN (s.edge_states[d] /\ RLt(Zero, EnabledWeight(s2, u))) =>
                  /\ FlowOut(s2, u) = FlowOut(s, u)
                  /\ \A k \in 1..Len(outgoing(u)) :
                         LET e == outgoing(u)[k]
                         IN (e # d /\ s.edge_states[e]) =>
                                RMul(edge_load(s2, e), EnabledWeight(s2, u)) =
                                    RMul(edge_load(s, e), EnabledWeight(s, u))

\* C18: edge_load(e) is 0 when the producer is unhealthy, e is disabled, the
\* producer served 0 or the weight sum W of its enabled outgoing edges is 0,
\* and served x gain x weight(e) / W otherwise; disabling one enabled edge of
\* the producer leaves the total forwarded unchanged and scales every
\* remaining sibling by W / (W - weight of the disabled edge).
C18_EdgeLoad == EdgeLoadAsRuled(current) /\ EdgeLoadAsRuled(previous)

\* a producer that forwards over two enabled edges of different weight
C18_Witness ==
    \E u \in NodeIds :
        /\ Len(EnabledOut(current, u)) >= 2
        /\ \E j, k \in 1..Len(EnabledOut(current, u)) :
               /\ RLt(Zero, edge_load(current, EnabledOut(current, u)[j]))
               /\ RLt(edge_load(current, EnabledOut(current, u)[j]),
                      edge_load(current, EnabledOut(current, u)[k]))

Occurrences(n) ==
    Cardinality({p \in UNION {{<<g, k>> : k \in 1..Len(groups[g])} : g \in 1..Len(groups)} :
                    groups[p[1]][p[2]] = n})

ValidInputs ==
    /\ Len(current.node_states) = Len(graph.nodes)
    /\ Len(current.edge_states) = Len(graph.edges)
    /\ Len(current.capacity_mods) = Len(groups)
    /\ \A n \in NodeIds : Occurrences(n) = 1
    /\ \A g \in 1..Len(groups) : \A k \in 1..Len(groups[g]) : groups[g][k] \in NodeIds

\* C19: construction rejects invalid inputs: an engine exists only if the
\* node-state, edge-state and modifier vectors have the lengths of the nodes,
\* edges and groups and the groups are a total, disjoint partition of the
\* graph's node ids.
C19_ConstructionValidates == last_call.op = "new" => ValidInputs

\* C20: until the first step previous_snapshot() is the current snapshot
\* itself, modifiers applied so far included; each step leaves as previous
\* the snapshot that was current before it, with its turn = new turn - 1 and
\* the node and edge states it had, and keeps no older one.
C20_PreviousSnapshot ==
    [][/\ current_snapshot'.turn = 0 => previous' = current'
       /\ last_call'.op = "step" =>
              /\ Len(previous_snapshot') = 1
              /\ previous'.turn = current_snapshot.turn
              /\ previous'.turn = current_snapshot'.turn - 1
              /\ previous'.node_states = current_snapshot.node_states
              /\ previous'.edge_states = current_snapshot.edge_states]_vars

\* after the second step the previous snapshot is the one of turn 1, with other
\* node states than the current one
C20_Witness ==
    /\ AfterStep /\ current.turn = 2
    /\ previous.turn = 1
    /\ previous.node_states # current.node_states
    /\ RLt(Zero, previous.node_states[1].demand)

BeforeFirstStep == previous_snapshot = <<>>

\* C21: before the first step, aggregate_groups on (current_snapshot(),
\* previous_snapshot()) reports utilisation trend Flat and health trend Flat for
\* every group, whatever the initial node states and whatever throttle or boost
\* was applied on turn 0.
C21_FlatBeforeFirstStep ==
    BeforeFirstStep =>
        \A g \in GroupIds :
            /\ aggregate_groups(current, previous)[g].utilization_trend = "Flat"
            /\ aggregate_groups(current, previous)[g].health_trend = "Flat"

\* turn 0 with a throttle applied to a worn group that already serves load
C21_Witness ==
    /\ BeforeFirstStep
    /\ \E g \in GroupIds :
           /\ factor(current.capacity_mods[g]) = THROTTLE
           /\ RLt(Zero, calc_util(current, g))
           /\ RLt(calc_health(current, g), Q(1, 2))

StepFactor(i) ==
    IF BeforeFirstStep THEN BASELINE_FACTOR
    ELSE factor(previous.capacity_mods[group_by_node_id(i)])

\* C23 as stated: in every reachable state, also between steps right after a
\* try_throttle_group or try_boost_group, every node state of the current
\* snapshot has demand >= 0, 0 <= served <= capacity x the current factor of
\* its group, backlog >= 0 and health in [0, 1].
C23_Original ==
    \A i \in NodeIds :
        LET n == current.node_states[i]
        IN /\ RLe(Zero, n.demand)
           /\ RLe(Zero, n.served)
           /\ RLe(n.served, EffCap(current, i))
           /\ RLe(Zero, n.backlog)
           /\ RLe(Zero, n.health)
           /\ RLe(n.health, One)

\* C23 amended: in every reachable state every node state of the current
\* snapshot has demand >= 0, served >= 0, backlog >= 0 and health in [0, 1],
\* and served <= capacity x the factor the last step used (the factor of the
\* previous snapshot's modifier; 1 before the first step).  A modifier applied
\* between steps does not touch the node states, so served may exceed
\* capacity x the new factor until the next step.
C23_NodeInvariant ==
    \A i \in NodeIds :
        LET n == current.node_states[i]
        IN /\ RLe(Zero, n.demand)
           /\ RLe(Zero, n.served)
           /\ RLe(n.served, RMul(graph.nodes[i].capacity, StepFactor(i)))
           /\ RLe(Zero, n.backlog)
           /\ RLe(Zero, n.health)
           /\ RLe(n.health, One)

\* right after a successful throttle that follows a step: a node still shows the
\* load it served at full capacity, above its throttled capacity
C23_Witness ==
    /\ last_call.op = "try_throttle_group" /\ last_call.ret
    /\ ~BeforeFirstStep
    /\ \E i \in NodeIds :
           /\ group_by_node_id(i) = last_call.group
           /\ RLt(EffCap(current, i), current.node_states[i].served)
           /\ current.node_states[i].served = graph.nodes[i].capacity

Failed(s, i) == RLe(s.node_states[i].health, Zero)

NothingLeaves(s, i) == \A k \in 1..Len(outgoing(i)) : edge_load(s, outgoing(i)[k]) = Zero

OnlyFailedProducers(s, v) ==
    /\ Len(incoming(v)) > 0
    /\ ~IsEntry(v)
    /\ \A k \in 1..Len(incoming(v)) : Failed(s, graph.edges[incoming(v)[k]].from)

\* C24: failure is absorbing.  A node whose health is <= 0 keeps that health
\* through every call; a step records its propagated demand, sets its served
\* and backlog to 0, and no load leaves it in the snapshot before or after
\* the step, so a node fed only by failed producers gets demand 0 even when
\* a producer is an entry node receiving scenario load.
C24_FailureAbsorbing ==
    [][\A i \in NodeIds :
          Failed(current_snapshot, i) =>
              /\ Failed(current_snapshot', i)
              /\ current_snapshot'.node_states[i].health = current_snapshot.node_states[i].health
              /\ NothingLeaves(current_snapshot, i)
              /\ NothingLeaves(current_snapshot', i)
              /\ last_call'.op = "step" =>
                     /\ current_snapshot'.node_states[i].demand =
                            prop(SnapshotTick(current_snapshot), i)
                     /\ current_snapshot'.node_states[i].served = Zero
                     /\ current_snapshot'.node_states[i].backlog = Zero
                     /\ \A v \in NodeIds :
                            OnlyFailedProducers(current_snapshot, v) =>
                                current_snapshot'.node_states[v].demand = Zero]_vars

\* a failed entry node in the step after the one in which it failed while
\* serving: the scenario load is recorded as its demand, it serves nothing and
\* its successor gets none
C24_Witness ==
    /\ AfterStep
    /\ \E i \in NodeIds :
           /\ IsEntry(i)
           /\ Failed(previous, i)
           /\ RLt(Zero, previous.node_states[i].served)
           /\ Failed(current, i)
           /\ RLt(Zero, current.node_states[i].demand)
           /\ current.node_states[i].served = Zero
           /\ \E k \in 1..Len(outgoing(i)) :
                  /\ current.edge_states[outgoing(i)[k]]
                  /\ graph.edges[outgoing(i)[k]].to # i
                  /\ current.node_states[graph.edges[outgoing(i)[k]].to].demand = Zero

\* p = (demand + backlog before the step) / effective capacity, for eff_cap > 0
PressureIn(i) == RDiv(TotalIn(i), EffCap(current, i))

HealthRule(i) ==
    LET h == previous.node_states[i].health
    IN IF EffCap(current, i) = Zero THEN h
       ELSE IF RLt(One, PressureIn(i))
       THEN RClamp(RSub(h, RMul(Q(1, 10), RSub(PressureIn(i), One))), Zero, One)
       ELSE IF RLt(PressureIn(i), One) /\ current.node_states[i].backlog = Zero
       THEN RClamp(RAdd(h, Q(1, 100)), Zero, One)
       ELSE h

\* C25: health update of a node that is healthy before the step, with total =
\* demand + previous backlog and p = total / eff_cap: the health is unchanged
\* if eff_cap = 0; else clamp(health - 0.1 x (p - 1), 0, 1) if p > 1; else
\* clamp(health + 0.01, 0, 1) if p < 1 and the new backlog is 0; otherwise
\* (p = 1, or p < 1 with backlog retained) unchanged.
C25_HealthUpdate ==
    AfterStep =>
        \A i \in NodeIds :
            is_healthy(previous.node_states[i]) =>
                current.node_states[i].health = HealthRule(i)

\* one step in which an overloaded node is damaged, an idle worn node recovers
\* and a worn node under its capacity keeps its health with its backlog
C25_Witness ==
    /\ AfterStep
    /\ \E i, j \in NodeIds :
           /\ is_healthy(previous.node_states[i])
           /\ RLt(One, PressureIn(i))
           /\ RLt(current.node_states[i].health, previous.node_states[i].health)
           /\ is_healthy(previous.node_states[j])
           /\ RLt(previous.node_states[j].health, current.node_states[j].health)

\* the remaining cases of the rule
C25_WitnessRetained ==
    /\ AfterStep
    /\ \E i \in NodeIds :
           /\ is_healthy(previous.node_states[i])
           /\ RLt(previous.node_states[i].health, One)
           /\ RLt(Zero, EffCap(current, i))
           /\ RLt(PressureIn(i), One)
           /\ RLt(Zero, current.node_states[i].backlog)

C25_WitnessZeroCapacity ==
    /\ AfterStep
    /\ \E i \in NodeIds :
           /\ is_healthy(previous.node_states[i])
           /\ EffCap(current, i) = Zero
           /\ RLt(Zero, TotalIn(i))

C25_WitnessAtCapacity ==
    /\ AfterStep
    /\ \E i \in NodeIds :
           /\ is_healthy(previous.node_states[i])
           /\ RLt(previous.node_states[i].health, One)
           /\ RLt(Zero, EffCap(current, i))
           /\ PressureIn(i) = One

IsSink(i) == Len(outgoing(i)) = 0

\* C26: a healthy node with no outgoing edges at all is drained by the normal
\* rule: right after a step its backlog is (demand + backlog before the step)
\* - served, hence 0 whenever that total fits its effective capacity.
C26_SinkDrains ==
    AfterStep =>
        \A i \in NodeIds :
            (IsSink(i) /\ is_healthy(previous.node_states[i])) =>
                /\ current.node_states[i].backlog =
                       RSub(TotalIn(i), current.node_states[i].served)
                /\ RLe(TotalIn(i), EffCap(current, i)) =>
                       current.node_states[i].backlog = Zero

\* a sink that carried a backlog into the step and served it together with new demand
C26_Witness ==
    /\ AfterStep
    /\ \E i \in NodeIds :
           /\ IsSink(i)
           /\ is_healthy(previous.node_states[i])
           /\ RLt(Zero, previous.node_states[i].backlog)
           /\ RLt(Zero, current.node_states[i].demand)
           /\ current.node_states[i].served = TotalIn(i)
           /\ current.node_states[i].backlog = Zero

\* the part of a node's demand that did not arrive over its incoming edges
ScenarioShare(n) == RSub(current.node_states[n].demand, InFlow(previous, n))

\* C27: entry nodes are treated as a set.  In each step an entry node n
\* receives scenario.load(n, turn) exactly once, also when n is listed more
\* than once in scenario.entry_nodes().
C27_EntrySet ==
    AfterStep =>
        \A k \in 1..Len(scenario.entry) :
            ScenarioShare(scenario.entry[k]) = load(scenario.entry[k], previous.turn)

\* the window between a successful apply on group g and the next step
InApplyWindow(a, g) == a[g].ever /\ a[g].ticks = 0

\* C28: a modifier is just_applied exactly from its successful apply until
\* the next step: right after every step no modifier of the current snapshot
\* (nor of the previous one) is flagged, and the step that clears the flag
\* leaves the modifier active with remaining as it was.
C28_JustApplied ==
    [][\A g \in GroupIds :
          /\ current_snapshot'.capacity_mods[g].just_applied <=> InApplyWindow(applied', g)
          /\ last_call'.op = "step" =>
                 /\ ~current_snapshot'.capacity_mods[g].just_applied
                 /\ ~previous'.capacity_mods[g].just_applied
                 /\ current_snapshot.capacity_mods[g].just_applied =>
                        /\ current_snapshot'.capacity_mods[g].active
                        /\ current_snapshot'.capacity_mods[g].remaining =
                               current_snapshot.capacity_mods[g].remaining]_vars

\* right after the step that follows a successful apply: the flag is gone and
\* remaining is still total_turns
C28_Witness ==
    /\ AfterStep
    /\ \E g \in GroupIds :
           /\ applied[g].ever /\ applied[g].ticks = 1
           /\ current.capacity_mods[g].active
           /\ ~current.capacity_mods[g].just_applied
           /\ current.capacity_mods[g].remaining = TURNS

\* C29: what step publishes.  No call changes an edge's enabled flag; the new
\* current snapshot carries the pre-step modifiers advanced by exactly one
\* tick, and the previous snapshot holds that same ticked modifier vector and
\* the same edge states, so right after a step previous and current
\* snapshots have identical modifiers.
C29_Publish ==
    [][/\ current_snapshot'.edge_states = current_snapshot.edge_states
       /\ last_call'.op = "step" =>
              /\ current_snapshot'.capacity_mods =
                     [g \in GroupIds |-> tick(current_snapshot.capacity_mods[g])]
              /\ previous'.capacity_mods = current_snapshot'.capacity_mods
              /\ previous'.edge_states = current_snapshot'.edge_states]_vars

\* right after a step that counted a modifier down, with an edge disabled
C29_Witness ==
    /\ AfterStep
    /\ \E g \in GroupIds :
           /\ current.capacity_mods[g].active
           /\ current.capacity_mods[g].remaining < TURNS
    /\ previous.capacity_mods = current.capacity_mods
    /\ \E e \in EdgeIds : ~current.edge_states[e]

\* the nodes of group g that are healthy in snapshot s
HealthyMembers(s, g) ==
    {n \in NodeIds : /\ \E k \in 1..Len(groups[g]) : groups[g][k] = n
                     /\ RLt(Zero, s.node_states[n].health)}

RECURSIVE ServedOver(_, _)
ServedOver(s, S) ==
    IF S = {} THEN Zero
    ELSE LET n == CHOOSE x \in S : TRUE
         IN RAdd(s.node_states[n].served, ServedOver(s, S \ {n}))

RECURSIVE CapacityOver(_, _, _)
CapacityOver(s, g, S) ==
    IF S = {} THEN Zero
    ELSE LET n == CHOOSE x \in S : TRUE
         IN RAdd(RMul(graph.nodes[n].capacity, factor(s.capacity_mods[g])),
                 CapacityOver(s, g, S \ {n}))

UtilisationRule(s, g) ==
    IF CapacityOver(s, g, HealthyMembers(s, g)) = Zero THEN Zero
    ELSE RDiv(ServedOver(s, HealthyMembers(s, g)),
              CapacityOver(s, g, HealthyMembers(s, g)))

\* C30: avg_utilisation of group g on a snapshot is (sum of served over the
\* nodes of g healthy in that snapshot) / (sum of capacity x modifier factor
\* of g over the same nodes), and 0 when that denominator is 0; unhealthy
\* nodes contribute to neither sum.
C30_AvgUtilisation ==
    \A g \in GroupIds :
        /\ aggregate_groups(current, previous)[g].avg_utilization = UtilisationRule(current, g)
        /\ aggregate_groups(previous, previous)[g].avg_utilization = UtilisationRule(previous, g)

\* a throttled group with a healthy node serving and a failed node that still
\* shows served load
C30_Witness ==
    \E g \in GroupIds :
        /\ factor(current.capacity_mods[g]) = THROTTLE
        /\ RLt(Zero, aggregate_groups(current, previous)[g].avg_utilization)
        /\ \E k, j \in 1..Len(groups[g]) :
               /\ ~is_healthy(current.node_states[groups[g][k]])
               /\ RLt(Zero, current.node_states[groups[g][k]].served)
               /\ is_healthy(current.node_states[groups[g][j]])
               /\ RLt(Zero, current.node_states[groups[g][j]].served)

\* a group without a healthy node, or with zero capacity, reports 0
C30_WitnessZero ==
    \E g \in GroupIds :
        /\ CapacityOver(current, g, HealthyMembers(current, g)) = Zero
        /\ \E k \in 1..Len(groups[g]) : RLt(Zero, current.node_states[groups[g][k]].served)
        /\ aggregate_groups(current, previous)[g].avg_utilization = Zero

Aggregated == last_call.op = "aggregate_groups"

RECURSIVE HealthOver(_, _)
HealthOver(s, S) ==
    IF S = {} THEN Zero
    ELSE LET n == CHOOSE x \in S : TRUE
         IN RAdd(s.node_states[n].health, HealthOver(s, S \ {n}))

Members(g) == {n \in NodeIds : \E k \in 1..Len(groups[g]) : groups[g][k] = n}

\* mean health over all nodes of the group, unhealthy ones included
MeanHealth(s, g) ==
    IF Members(g) = {} THEN Zero
    ELSE RDiv(HealthOver(s, Members(g)), Q(Cardinality(Members(g)), 1))

UtilisationMove(g) == RSub(UtilisationRule(current, g), UtilisationRule(previous, g))

HealthMove(g) == RSub(MeanHealth(current, g), MeanHealth(previous, g))

TrendRule(t, d) ==
    /\ t = "Up" <=> RLt(Q(2, 100), d)
    /\ t = "Down" <=> RLt(d, Q(-2, 100))
    /\ t = "Flat" <=> (RLe(Q(-2, 100), d) /\ RLe(d, Q(2, 100)))

\* C32: the utilisation trend and the health trend of a group are each Up
\* iff current - previous > 0.02, Down iff current - previous < -0.02 and
\* Flat otherwise, a difference of exactly +0.02 or -0.02 being Flat.
C32_Trend ==
    Aggregated =>
        \A g \in GroupIds :
            /\ TrendRule(summaries[g].utilization_trend, UtilisationMove(g))
            /\ TrendRule(summaries[g].health_trend, HealthMove(g))

\* a group whose health moved by exactly +0.02 (Flat) while its utilisation
\* went up, and a group whose health went down
C32_Witness ==
    /\ Aggregated
    /\ \E g \in GroupIds :
           /\ HealthMove(g) = Q(2, 100)
           /\ summaries[g].health_trend = "Flat"
           /\ summaries[g].utilization_trend = "Up"
    /\ \E g \in GroupIds :
           /\ summaries[g].health_trend = "Down"

\* the other bound: a utilisation that moved by exactly -0.02
C32_WitnessDown ==
    /\ Aggregated
    /\ \E g \in GroupIds :
           /\ UtilisationMove(g) = Q(-2, 100)
           /\ summaries[g].utilization_trend = "Flat"
           /\ summaries[g].health_trend = "Down"

RECURSIVE LoadOver(_, _)
LoadOver(s, S) ==
    IF S = {} THEN Zero
    ELSE LET e == CHOOSE x \in S : TRUE
         IN RAdd(edge_load(s, e), LoadOver(s, S \ {e}))

\* the edges into group g whose producer belongs to group sg
EdgesBetween(sg, g) ==
    {e \in EdgeIds : /\ graph.edges[e].to \in Members(g)
                     /\ graph.edges[e].from \in Members(sg)}

\* C33: pressure by source group.  The pressure vector of every group g has
\* one slot per group, and slot s is the sum of edge_load on the current
\* snapshot over the edges (u, v) with v in g and u in group s; self-loops and
\* edges inside g are booked in g's own slot, and edges that are disabled or
\* leave an unhealthy producer add 0.
C33_Pressure ==
    Aggregated =>
        \A g \in GroupIds :
            /\ DOMAIN summaries[g].pressure = GroupIds
            /\ \A sg \in GroupIds :
                   summaries[g].pressure[sg] = LoadOver(current, EdgesBetween(sg, g))
            /\ \A e \in EdgeIds :
                   (~current.edge_states[e] \/ ~is_healthy(current.node_states[graph.edges[e].from]))
                       => edge_load(current, e) = Zero

\* a group fed by its own self-loop and by another group, to which a third
\* group sends nothing because one of its edges is disabled and the other
\* leaves a failed producer; a group fed by an edge between two of its nodes
C33_Witness ==
    /\ Aggregated
    /\ \E g, sg, tg \in GroupIds :
           /\ sg # g /\ tg # g
           /\ RLt(Zero, summaries[g].pressure[sg])
           /\ RLt(Zero, summaries[g].pressure[g])
           /\ \E e \in EdgesBetween(g, g) : graph.edges[e].from = graph.edges[e].to
           /\ summaries[g].pressure[tg] = Zero
           /\ \E e, f \in EdgesBetween(tg, g) :
                  /\ ~current.edge_states[e]
                  /\ current.edge_states[f]
                  /\ ~is_healthy(current.node_states[graph.edges[f].from])
                  /\ RLt(Zero, current.node_states[graph.edges[e].from].served)
                  /\ RLt(Zero, current.node_states[graph.edges[f].from].served)
    /\ \E g \in GroupIds :
           /\ RLt(Zero, summaries[g].pressure[g])
           /\ \E e \in EdgesBetween(g, g) : graph.edges[e].from # graph.edges[e].to

\* C34: aggregate_groups returns exactly one summary per group, in group
\* order, with node_count = size of the group and healthy_nodes = number of
\* its nodes with health > 0 in the current snapshot; an empty group gets
\* avg_health = 0, avg_utilisation = 0 and healthy_nodes = 0.
C34_Summaries ==
    Aggregated =>
        /\ DOMAIN summaries = 1..Len(groups)
        /\ \A g \in GroupIds :
               /\ summaries[g].node_count = Len(groups[g])
               /\ summaries[g].healthy_nodes = Cardinality(HealthyMembers(current, g))
               /\ groups[g] = <<>> =>
                      /\ summaries[g].raw_health = Zero
                      /\ summaries[g].avg_utilization = Zero
                      /\ summaries[g].healthy_nodes = 0
                      /\ summaries[g].node_count = 0

\* summaries of an empty group, of a group with a failed node and of a larger
\* group than the one that follows it
C34_Witness ==
    /\ Aggregated
    /\ \E g \in GroupIds : groups[g] = <<>> /\ summaries[g].raw_health = Zero
    /\ \E g \in GroupIds :
           /\ summaries[g].healthy_nodes >= 1
           /\ summaries[g].healthy_nodes < summaries[g].node_count
    /\ \E g \in GroupIds :
           /\ g + 1 \in GroupIds
           /\ summaries[g].node_count > summaries[g + 1].node_count
           /\ summaries[g + 1].node_count > 0

Succeeded(c, g) == IsTryCall(c) /\ c.ret /\ c.group = g

\* C35: two successful modifier applications to the same group are separated
\* by at least total_turns + 1 = 4 steps, and the last of those four steps,
\* whose tick expires the modifier, runs with the group at the baseline
\* factor 1.0.
C35_ApplySpacing ==
    [][\A g \in GroupIds :
          /\ (Succeeded(last_call', g) /\ applied[g].ever) => applied[g].ticks >= TURNS + 1
          /\ (last_call'.op = "step" /\ applied'[g].ever /\ applied'[g].ticks = TURNS + 1) =>
                 /\ ~is_active(current_snapshot'.capacity_mods[g])
                 /\ factor(current_snapshot'.capacity_mods[g]) = BASELINE_FACTOR
                 /\ \A i \in NodeIds :
                        (group_by_node_id(i) = g /\ is_healthy(current_snapshot.node_states[i])) =>
                            current_snapshot'.node_states[i].served =
                                RMin(graph.nodes[i].capacity,
                                     RAdd(current_snapshot'.node_states[i].demand,
                                          current_snapshot.node_states[i].backlog))]_vars

\* the second successful application to a group, four steps after the first
C35_Witness ==
    \E g \in GroupIds :
        /\ Succeeded(last_call, g)
        /\ applied[g].count = 2
        /\ current.turn = TURNS + 1
        /\ current.capacity_mods[g].just_applied

\* the groups whose modifier was applied since the last step
AppliedSinceStep == {g \in GroupIds : InApplyWindow(applied, g)}

\* C36: in every reachable state 0 <= remaining_ops <= scenario.ops_per_turn(),
\* and the number of modifier applications that succeeded since the last step
\* is at most ops_per_turn() (it is ops_per_turn() - remaining_ops), whatever
\* try_throttle_group / try_boost_group calls were made on whatever groups.
C36_OpsBudget ==
    /\ 0 <= remaining_ops
    /\ remaining_ops <= ops_per_turn
    /\ Cardinality(AppliedSinceStep) <= ops_per_turn
    /\ Cardinality(AppliedSinceStep) = ops_per_turn - remaining_ops

\* a budget of two ops spent on two groups, and a further call turned away
C36_Witness ==
    /\ ops_per_turn = 2
    /\ remaining_ops = 0
    /\ Cardinality(AppliedSinceStep) = 2
    /\ IsTryCall(last_call) /\ ~last_call.called

\* node i was healthy before the last step and left it with health 0
FailedInLastStep(i) ==
    /\ ~BeforeFirstStep
    /\ is_healthy(previous.node_states[i])
    /\ Failed(current, i)

\* what the enabled edges of the healthy producers other than i carry to v
InFlowWithout(s, v, i) ==
    RSum([k \in 1..Len(incoming(v)) |->
             IF graph.edges[incoming(v)[k]].from = i
             THEN Zero ELSE edge_load(s, incoming(v)[k])])

\* the scenario load as the step adds it to v
LoadAdded(v, t) ==
    RSum([k \in 1..Len(scenario.entry) |->
             IF scenario.entry[k] = v THEN load(v, t) ELSE Zero])

\* C37: work served by a node in the very step in which its health reaches 0
\* is never forwarded: right after that step the node shows a non-zero
\* served value, every outgoing edge load from it is 0, and in the next step
\* its successors get only what their other producers and the scenario send.
C37_FailingStepNotForwarded ==
    [][\A i \in NodeIds :
          FailedInLastStep(i) =>
              /\ RLt(Zero, current_snapshot.node_states[i].served)
              /\ NothingLeaves(current_snapshot, i)
              /\ last_call'.op = "step" =>
                     \A k \in 1..Len(outgoing(i)) :
                         LET v == graph.edges[outgoing(i)[k]].to
                         IN current_snapshot'.node_states[v].demand =
                                RAdd(InFlowWithout(current_snapshot, v, i),
                                     LoadAdded(v, current_snapshot.turn))]_vars

\* the step after the one in which a node failed while serving over an enabled
\* edge: its successor, which has no other producer, got no demand
C37_Witness ==
    /\ AfterStep
    /\ current.turn >= 2
    /\ \E i \in NodeIds :
           /\ Failed(previous, i)
           /\ RLt(Zero, previous.node_states[i].served)
           /\ \E k \in 1..Len(outgoing(i)) :
                  LET v == graph.edges[outgoing(i)[k]].to
                  IN /\ v # i
                     /\ previous.edge_states[outgoing(i)[k]]
                     /\ RLt(Zero, graph.edges[outgoing(i)[k]].weight)
                     /\ RLt(Zero, graph.nodes[i].gain)
                     /\ Len(incoming(v)) = 1
                     /\ RLt(Zero, previous.node_states[v].demand)
                     /\ current.node_states[v].demand = LoadAdded(v, previous.turn)

\* an entry node of capacity > 0 whose scenario load exceeds its capacity at
\* every turn (the load never decreases with the turn)
SustainedOverload(i) ==
    /\ i \in NodeIds
    /\ IsEntry(i)
    /\ RLt(Zero, graph.nodes[i].capacity)
    /\ RLe(Zero, scenario.ramp_per_turn)
    /\ RLt(graph.nodes[i].capacity, load(i, 0))

OverloadedAlive(i) ==
    SustainedOverload(i) /\ NoOperatorAction /\ is_healthy(current.node_states[i])

OverloadedDone(i) == (SustainedOverload(i) /\ Failed(current, i)) \/ ~NoOperatorAction

\* C38: sustained overload is fatal.  With no operator actions, a healthy
\* node with capacity > 0 that receives more demand than its capacity on
\* every step reaches health 0 after finitely many steps, and every step
\* taken after that leaves it with served = 0.
C38_OverloadFatal ==
    /\ \A i \in 1..MaxNodes : OverloadedAlive(i) ~> OverloadedDone(i)
    /\ [][\A i \in NodeIds :
              (Failed(current_snapshot, i) /\ last_call'.op = "step") =>
                  current_snapshot'.node_states[i].served = Zero]_vars

\* an overloaded entry node that failed while serving and serves nothing in
\* the step after, no operator action taken
C38_Witness ==
    /\ AfterStep
    /\ NoOperatorAction
    /\ \E i \in NodeIds :
           /\ SustainedOverload(i)
           /\ Failed(previous, i)
           /\ RLt(Zero, previous.node_states[i].served)
           /\ RLt(graph.nodes[i].capacity, current.node_states[i].demand)
           /\ current.node_states[i].served = Zero

\* the sum over all source slots of the pressure vector of group g
PressureTotal(s, g) == RSum([sg \in 1..Len(groups) |-> pressure(s, g)[sg]])

\* what the nodes of S got as demand in t beyond the scenario load added at the
\* turn of s
RECURSIVE PropagatedOver(_, _, _)
PropagatedOver(s, t, S) ==
    IF S = {} THEN Zero
    ELSE LET v == CHOOSE x \in S : TRUE
         IN RAdd(RSub(t.node_states[v].demand, LoadAdded(v, s.turn)),
                 PropagatedOver(s, t, S \ {v}))

\* C39: analysis and engine agree on flow.  For every group g, the sum over
\* all source slots of g's pressure vector on the current snapshot equals the
\* sum over the nodes v of g of the propagated (non-scenario) part of the
\* demand v gets in the next step; a throttle or boost call in between leaves
\* every pressure vector as it is.
C39_FlowAgreement ==
    [][/\ last_call'.op = "step" =>
              \A g \in GroupIds :
                  PressureTotal(current_snapshot, g) =
                      PropagatedOver(current_snapshot, current_snapshot', Members(g))
       /\ last_call'.op # "step" =>
              \A g \in GroupIds :
                  pressure(current_snapshot', g) = pressure(current_snapshot, g)]_vars

\* a step taken right after a successful operator action, in which a group
\* under positive pressure gets that pressure as the propagated demand of its
\* nodes, one of them failed and one of them fed by the scenario as well
C39_Witness ==
    /\ AfterStep
    /\ \E a \in GroupIds : applied[a].ever /\ applied[a].ticks = 1
    /\ \E g \in GroupIds :
           /\ RLt(Zero, PressureTotal(previous, g))
           /\ PressureTotal(previous, g) = PropagatedOver(previous, current, Members(g))
           /\ \E v \in Members(g) :
                  /\ ~is_healthy(previous.node_states[v])
                  /\ RLt(Zero, InFlow(previous, v))
           /\ \E v \in Members(g) : RLt(Zero, LoadAdded(v, previous.turn))

OperatorCall(op) == op \in {"try_throttle_group", "try_boost_group"}

\* C40: try_throttle_group(g) and try_boost_group(g) change nothing except the
\* modifier of group g and remaining_ops: the turn, all node states, all edge
\* states and the modifier of every other group in the current snapshot are
\* unchanged, and after the first step the previous snapshot is unchanged too.
C40_OperatorFrame ==
    [][OperatorCall(last_call'.op) =>
          /\ current_snapshot'.turn = current_snapshot.turn
          /\ current_snapshot'.node_states = current_snapshot.node_states
          /\ current_snapshot'.edge_states = current_snapshot.edge_states
          /\ DOMAIN current_snapshot'.capacity_mods = DOMAIN current_snapshot.capacity_mods
          /\ \A h \in GroupIds \ {last_call'.group} :
                 current_snapshot'.capacity_mods[h] = current_snapshot.capacity_mods[h]
          /\ current_snapshot.turn > 0 => previous' = previous
          /\ <<graph, groups, scenario>>' = <<graph, groups, scenario>>]_vars

\* a throttle or boost that succeeded after the first step on one of several
\* groups: its modifier differs from the one in the previous snapshot, an op
\* is spent and another group still runs an earlier modifier
C40_Witness ==
    /\ OperatorCall(last_call.op) /\ last_call.ret
    /\ current.turn > 0
    /\ remaining_ops < ops_per_turn
    /\ current.capacity_mods[last_call.group] # previous.capacity_mods[last_call.group]
    /\ \E h \in GroupIds \ {last_call.group} :
           /\ is_active(current.capacity_mods[h])
           /\ current.capacity_mods[h] = previous.capacity_mods[h]

====
